---- MODULE Spec2Model ----
(***************************************************************************)
(* PlotManager (the entity registry of Asterisk-Globe) as a state machine. *)
(* The registry is the JavaScript Map `this.layers`; a Map keeps its       *)
(* entries in insertion order, so it is modelled as a sequence of          *)
(* [key, val] entries on which set/delete/get are defined as the Map       *)
(* defines them.  Every public method of PlotManager is one action; the    *)
(* last call and what it returned (or threw) are kept in `call` and `ret`. *)
(* The globe projections of the globe utilities (latLngToVector3,          *)
(* vector3ToLatLng, createArcCurve) follow as operators on a grid of       *)
(* angles, with a specification that calls them once on each input.        *)
(***************************************************************************)
EXTENDS Integers, Sequences, FiniteSets, TLC

----------------------------------------------------------------------------
(* Bounds of the model *)

\* layerCounter stops being incremented here (ids are generated only below it)
MaxCounter == 2
\* largest number of live entries the registry is driven to
MaxLayers == 2
\* longest instruction list handed to processEventBatch
MaxBatch == 2
\* milliseconds the host clock runs after the page load
MaxTime == 2
\* the largest globe radius handed to the projections
MaxRadius == 3
\* the largest arc height handed to createArcCurve
MaxHeight == 2
\* the largest numPoints handed to getIntermediatePoints
MaxPoints == 2
\* the longest duration of an explosion, in milliseconds
MaxDuration == 3

----------------------------------------------------------------------------
(* Values *)

\* the seven cases of the switch in addLayer
LayerTypes ==
  {"pulsing_dot", "animated_arc", "explosion", "glowing_border",
   "directional_arrow", "event_marker", "area_highlight"}

\* a type string that no case of the switch matches
UnknownType == "not_a_real_type"

\* ids are the strings `${type}-${n}`; the pair <<type, n>> stands for the string
Null == <<"null", 0>>

\* `${type}-${++this.layerCounter}`
GenId(type, n) == <<type, n>>

\* ids a caller supplies: a free name, and a string equal to a generated id
CallerIds == {<<"user", 1>>, <<"pulsing_dot", 1>>}

\* option objects: functions from key to number (<<>> is {})
EmptyOptions == <<>>

\* geometry payloads: a list of point records, a list of arc records whose
\* endpoints may be missing, or a FeatureCollection with one polygon ring
PointData(tag) ==
  [kind |-> "points", tag |-> tag, hasFrom |-> FALSE, hasTo |-> FALSE, ring |-> <<>>]

ArcData(hasFrom, hasTo) ==
  [kind |-> "arcs", tag |-> 1, hasFrom |-> hasFrom, hasTo |-> hasTo, ring |-> <<>>]

PolygonData(ring) ==
  [kind |-> "polygon", tag |-> 1, hasFrom |-> FALSE, hasTo |-> FALSE, ring |-> ring]

\* the ring of fallbackPolygon, and a ring of two coordinate pairs
Ring5 == << <<135, 30>>, <<145, 30>>, <<145, 40>>, <<135, 40>>, <<135, 30>> >>

Ring2 == << <<135, 30>>, <<145, 30>> >>

NoData == PointData(0)

\* const isValidPolygon = coords => Array.isArray(coords) && coords.length > 2 && ...
isValidPolygon(coords) ==
  /\ Len(coords) > 2
  /\ Len(coords[1]) = 2

----------------------------------------------------------------------------
(* JavaScript Map, in insertion order *)

MapKeys(m) == [i \in 1..Len(m) |-> m[i].key]

MapHas(m, k) == \E i \in 1..Len(m) : m[i].key = k

MapIndex(m, k) == CHOOSE i \in 1..Len(m) : m[i].key = k

MapGet(m, k) == m[MapIndex(m, k)].val

\* a set that never looks for the key
MapSetAlwaysAppends(m, k, v) == Append(m, [key |-> k, val |-> v])

\* Map.prototype.set: an existing key keeps its position, a new key goes last
MapSet(m, k, v) ==
  IF MapHas(m, k)
    THEN [m EXCEPT ![MapIndex(m, k)] = [key |-> k, val |-> v]]
    ELSE Append(m, [key |-> k, val |-> v])

\* a delete that also drops every entry behind the key
MapDeleteTruncates(m, k) ==
  IF MapHas(m, k) THEN SubSeq(m, 1, MapIndex(m, k) - 1) ELSE m

\* Map.prototype.delete: the entries with another key, order kept
MapDelete(m, k) == SelectSeq(m, LAMBDA e : e.key # k)

\* Array.from(map.values())
MapValues(m) == [i \in 1..Len(m) |-> m[i].val]

----------------------------------------------------------------------------
(* Layer generators *)

\* const { key = default } = options
Opt(options, key, default) ==
  IF key \in DOMAIN options THEN options[key] ELSE default

\* { ...b, ...a }: the keys of a win
SpreadKeepsOld(a, b) ==
  [k \in (DOMAIN a) \cup (DOMAIN b) |-> IF k \in DOMAIN a THEN a[k] ELSE b[k]]

\* { ...a, ...b }
Spread(a, b) ==
  [k \in (DOMAIN a) \cup (DOMAIN b) |-> IF k \in DOMAIN b THEN b[k] ELSE a[k]]

\* a layer that no frame has given a timestamp prop yet
NoTimestamp == -1

\* new ScatterplotLayer({...}); pulseIntensity is kept in tenths (0.3 is 3)
createPulsingDotLayer(id, data, options) ==
  [cls |-> "ScatterplotLayer",
   id |-> <<"pulsing-dot", id>>,
   data |-> data,
   props |-> [baseRadius |-> Opt(options, "baseRadius", 10000),
              pulseIntensity |-> Opt(options, "pulseIntensity", 3),
              pulseSpeed |-> Opt(options, "pulseSpeed", 2),
              strokeWidth |-> Opt(options, "strokeWidth", 1)],
   timestamp |-> NoTimestamp]

\* new ArcLayer({...}); the accessors d.from.lng, d.to.lng are not run here
createArcLayer(id, data, options) ==
  [cls |-> "ArcLayer",
   id |-> <<"arc", id>>,
   data |-> data,
   props |-> [strokeWidth |-> Opt(options, "strokeWidth", 4)],
   timestamp |-> NoTimestamp]

\* the static methods class LayerGenerators defines
LayerGeneratorsMethods == {"createPulsingDotLayer", "createArcLayer"}

\* a switch whose default falls through to the pulsing dot
SwitchCaseNoDefault(type) ==
  CASE type = "animated_arc" -> "createArcLayer"
    [] type = "explosion" -> "createExplosionLayer"
    [] type = "glowing_border" -> "createGlowingBorderLayer"
    [] type = "directional_arrow" -> "createDirectionalArrowLayer"
    [] type = "event_marker" -> "createEventMarkerLayer"
    [] type = "area_highlight" -> "createAreaHighlightLayer"
    [] OTHER -> "createPulsingDotLayer"

\* the method each case of the switch in addLayer calls ("default" for no case)
SwitchCase(type) ==
  CASE type = "pulsing_dot" -> "createPulsingDotLayer"
    [] type = "animated_arc" -> "createArcLayer"
    [] type = "explosion" -> "createExplosionLayer"
    [] type = "glowing_border" -> "createGlowingBorderLayer"
    [] type = "directional_arrow" -> "createDirectionalArrowLayer"
    [] type = "event_marker" -> "createEventMarkerLayer"
    [] type = "area_highlight" -> "createAreaHighlightLayer"
    [] OTHER -> "default"

\* LayerGenerators[method](layerId, data, options), for a method that exists
CallGenerator(method, id, data, options) ==
  IF method = "createPulsingDotLayer"
    THEN createPulsingDotLayer(id, data, options)
    ELSE createArcLayer(id, data, options)

\* message of the TypeError raised by calling a static method that is undefined
NotAFunction(method) == "LayerGenerators." \o method \o " is not a function"

----------------------------------------------------------------------------
(* PlotManager methods as functions of the fields they read *)

\* addLayer(eventInstruction): the fields it leaves, and how it ends
addLayer(L, counter, time, instr) ==
  LET generated == instr.id = Null
      layerId == IF generated THEN GenId(instr.type, counter + 1) ELSE instr.id
      counter2 == IF generated THEN counter + 1 ELSE counter
      method == SwitchCase(instr.type)
  IN  IF method = "default"
        THEN [layers |-> L, layerCounter |-> counter2,
              kind |-> "null", v |-> Null, error |-> ""]
      ELSE IF method \notin LayerGeneratorsMethods
        THEN [layers |-> L, layerCounter |-> counter2,
              kind |-> "throw", v |-> Null, error |-> NotAFunction(method)]
      ELSE [layers |-> MapSet(L, layerId,
                        [layer |-> CallGenerator(method, layerId, instr.data, instr.options),
                         type |-> instr.type,
                         data |-> instr.data,
                         options |-> instr.options,
                         createdAt |-> time]),
            layerCounter |-> counter2,
            kind |-> "id", v |-> layerId, error |-> ""]

\* the layers listed from the newest entry to the oldest
getAllLayersNewestFirst(L) == [i \in 1..Len(L) |-> L[Len(L) + 1 - i].val.layer]

\* getAllLayers()
getAllLayers(L) == [i \in 1..Len(L) |-> L[i].val.layer]

\* getLayersByType(type)
getLayersByType(L, type) ==
  LET infos == SelectSeq(MapValues(L), LAMBDA info : info.type = type)
  IN  [i \in 1..Len(infos) |-> infos[i].layer]

\* getLayerStats(): the loop over this.layers.values(), on the first n entries
RECURSIVE StatsLoop(_, _)
StatsLoop(L, n) ==
  IF n = 0 THEN <<>>
  ELSE LET stats == StatsLoop(L, n - 1)
           t == L[n].val.type
       IN  [k \in (DOMAIN stats) \cup {t} |->
              IF k = t THEN Opt(stats, t, 0) + 1 ELSE stats[k]]

\* stats[layerInfo.type] = 1, without the running count
getLayerStatsNoCount(L) == [t \in {L[i].val.type : i \in 1..Len(L)} |-> 1]

getLayerStats(L) == StatsLoop(L, Len(L))

\* a loop that stops at the first entry of the type
toRemoveFirstOnly(L, type) ==
  LET hits == SelectSeq(L, LAMBDA e : e.val.type = type)
  IN  IF hits = <<>> THEN <<>> ELSE <<hits[1].key>>

\* removeLayersByType(type): the ids collected in toRemove
toRemove(L, type) ==
  LET hits == SelectSeq(L, LAMBDA e : e.val.type = type)
  IN  [i \in 1..Len(hits) |-> hits[i].key]

\* toRemove.forEach(id => this.layers.delete(id)), on the first n ids
RECURSIVE DeleteEach(_, _, _)
DeleteEach(L, ids, n) ==
  IF n = 0 THEN L ELSE MapDelete(DeleteEach(L, ids, n - 1), ids[n])

\* a result pushed as a success whatever addLayer returned
BatchResultNoCheck(out, instruction) ==
  [success |-> out.kind # "throw",
   layerId |-> out.v,
   error |-> out.error,
   instruction |-> instruction]

\* one result of processEventBatch
BatchResult(out, instruction) ==
  [success |-> out.kind = "id",
   layerId |-> out.v,
   error |-> IF out.kind = "null" THEN "Failed to create layer" ELSE out.error,
   instruction |-> instruction]

\* processEventBatch(instructions): the for loop, on the first n instructions
RECURSIVE BatchLoop(_, _, _, _, _)
BatchLoop(L, counter, time, instructions, n) ==
  IF n = 0
    THEN [layers |-> L, layerCounter |-> counter, results |-> <<>>]
    ELSE LET before == BatchLoop(L, counter, time, instructions, n - 1)
             out == addLayer(before.layers, before.layerCounter, time, instructions[n])
         IN  [layers |-> out.layers,
              layerCounter |-> out.layerCounter,
              results |-> Append(before.results, BatchResult(out, instructions[n]))]

\* a loop without try/catch: the first throw ends it
processEventBatchNoCatch(L, counter, time, instructions) ==
  LET throws == {i \in 1..Len(instructions) :
                   SwitchCase(instructions[i].type) \notin LayerGeneratorsMethods \cup {"default"}}
      last == IF throws = {} THEN Len(instructions)
              ELSE (CHOOSE i \in throws : \A j \in throws : i <= j) - 1
  IN  BatchLoop(L, counter, time, instructions, last)

processEventBatch(L, counter, time, instructions) ==
  BatchLoop(L, counter, time, instructions, Len(instructions))

----------------------------------------------------------------------------
(* State *)

VARIABLES
  layers,            \* this.layers, a Map from layer id to layer info
  layerCounter,      \* this.layerCounter
  animationFrameId,  \* this.animationFrameId (0 is null)
  requests,          \* the frames requested of the host and neither run nor cancelled
  lastTimestamp,     \* this.lastTimestamp
  timestamp,         \* this.timestamp
  clock,             \* what Date.now() returns
  snapshot,          \* the array a caller still holds from getAllLayers()
  cache,             \* geocodingService.cache, a Map from cache key to coordinates
  fetches,           \* the calls of geocodeLocation that await their fetch
  apiKey,            \* whether API_CONFIG.opencage.key is configured
  call,              \* the last method called, with its arguments
  ret                \* how that call ended: what it returned, or that it threw

vars ==
  <<layers, layerCounter, animationFrameId, requests, lastTimestamp, timestamp,
    clock, snapshot, cache, fetches, apiKey, call, ret>>

\* Date.now() when the page loads; the timestamps of animation frames count
\* from the page load, Date.now() counts from the epoch
TimeOrigin == 100

Call(op, id, type, data, options) ==
  [op |-> op, id |-> id, type |-> type, data |-> data, options |-> options,
   instructions |-> <<>>]

Return(kind, v) == [kind |-> kind, v |-> v]

\* constructor()
Init ==
  /\ layers = <<>>
  /\ layerCounter = 0
  /\ animationFrameId = 0
  /\ requests = {}
  /\ cache = <<>>
  /\ fetches = {}
  /\ apiKey = TRUE
  /\ lastTimestamp = 0
  /\ timestamp = 0
  /\ clock = TimeOrigin
  /\ snapshot = <<>>
  /\ call = Call("constructor", Null, "", NoData, EmptyOptions)
  /\ ret = Return("void", Null)

----------------------------------------------------------------------------
(* Operations *)

\* the model follows the manager while it stays within its bounds
InBounds(L, counter) == Len(L) <= MaxLayers /\ counter <= MaxCounter

AddLayer(instr) ==
  LET out == addLayer(layers, layerCounter, clock, instr)
  IN  /\ InBounds(out.layers, out.layerCounter)
      /\ layers' = out.layers
      /\ layerCounter' = out.layerCounter
      /\ call' = Call("addLayer", instr.id, instr.type, instr.data, instr.options)
      /\ ret' = Return(out.kind, out.v)
      /\ UNCHANGED <<animationFrameId, requests, lastTimestamp, timestamp, clock, snapshot, cache, fetches, apiKey>>

\* removeLayer(layerId): return this.layers.delete(layerId)
RemoveLayer(layerId) ==
  /\ layers' = MapDelete(layers, layerId)
  /\ call' = Call("removeLayer", layerId, "", NoData, EmptyOptions)
  /\ ret' = Return("bool", MapHas(layers, layerId))
  /\ UNCHANGED <<layerCounter, animationFrameId, requests, lastTimestamp, timestamp, clock, snapshot, cache, fetches, apiKey>>

RemoveLayersByType(type) ==
  LET ids == toRemove(layers, type)
  IN  /\ layers' = DeleteEach(layers, ids, Len(ids))
      /\ call' = Call("removeLayersByType", Null, type, NoData, EmptyOptions)
      /\ ret' = Return("count", Len(ids))
      /\ UNCHANGED <<layerCounter, animationFrameId, requests, lastTimestamp, timestamp, clock, snapshot, cache, fetches, apiKey>>

\* an update of the data that goes through addLayer, as updateLayerOptions does
UpdateLayerDataRebuilds(layerId, newData) ==
  /\ call' = Call("updateLayerData", layerId, "", newData, EmptyOptions)
  /\ IF MapHas(layers, layerId)
       THEN LET layerInfo == MapGet(layers, layerId)
                out == addLayer(layers, layerCounter, clock,
                                [type |-> layerInfo.type, data |-> newData,
                                 options |-> layerInfo.options, id |-> layerId])
            IN  /\ layers' = out.layers
                /\ ret' = Return("bool", TRUE)
       ELSE /\ layers' = layers
            /\ ret' = Return("bool", FALSE)
  /\ UNCHANGED <<layerCounter, animationFrameId, requests, lastTimestamp, timestamp, clock, snapshot, cache, fetches, apiKey>>

\* updateLayerData(layerId, newData); setProps({ data }) replaces the layer's data
UpdateLayerData(layerId, newData) ==
  /\ call' = Call("updateLayerData", layerId, "", newData, EmptyOptions)
  /\ IF MapHas(layers, layerId)
       THEN LET layerInfo == MapGet(layers, layerId)
            IN  /\ layers' = MapSet(layers, layerId,
                               [layerInfo EXCEPT !.data = newData,
                                                 !.layer.data = newData])
                /\ ret' = Return("bool", TRUE)
       ELSE /\ layers' = layers
            /\ ret' = Return("bool", FALSE)
  /\ UNCHANGED <<layerCounter, animationFrameId, requests, lastTimestamp, timestamp, clock, snapshot, cache, fetches, apiKey>>

\* updateLayerOptions(layerId, newOptions): merges in place, then addLayer
UpdateLayerOptions(layerId, newOptions) ==
  /\ call' = Call("updateLayerOptions", layerId, "", NoData, newOptions)
  /\ IF MapHas(layers, layerId)
       THEN LET layerInfo == MapGet(layers, layerId)
                options == Spread(layerInfo.options, newOptions)
                merged == MapSet(layers, layerId, [layerInfo EXCEPT !.options = options])
                out == addLayer(merged, layerCounter, clock,
                                [type |-> layerInfo.type, data |-> layerInfo.data,
                                 options |-> options, id |-> layerId])
            IN  /\ layers' = out.layers
                /\ layerCounter' = out.layerCounter
                /\ ret' = IF out.kind = "throw"
                            THEN Return("throw", Null)
                            ELSE Return("bool", TRUE)
       ELSE /\ layers' = layers
            /\ layerCounter' = layerCounter
            /\ ret' = Return("bool", FALSE)
  /\ UNCHANGED <<animationFrameId, requests, lastTimestamp, timestamp, clock, snapshot, cache, fetches, apiKey>>

\* clearAllLayers(): this.layers.clear()
ClearAllLayers ==
  /\ layers' = <<>>
  /\ call' = Call("clearAllLayers", Null, "", NoData, EmptyOptions)
  /\ ret' = Return("void", Null)
  /\ UNCHANGED <<layerCounter, animationFrameId, requests, lastTimestamp, timestamp, clock, snapshot, cache, fetches, apiKey>>

ProcessEventBatch(instructions) ==
  LET out == processEventBatch(layers, layerCounter, clock, instructions)
  IN  /\ InBounds(out.layers, out.layerCounter)
      /\ layers' = out.layers
      /\ layerCounter' = out.layerCounter
      /\ call' = [Call("processEventBatch", Null, "", NoData, EmptyOptions)
                    EXCEPT !.instructions = instructions]
      /\ ret' = Return("results", out.results)
      /\ UNCHANGED <<animationFrameId, requests, lastTimestamp, timestamp, clock, snapshot, cache, fetches, apiKey>>

\* a loop that breaks after the first layer
SetTimestampsOnFirst(L, ts) ==
  [i \in 1..Len(L) |-> IF i = 1 THEN [L[i] EXCEPT !.val.layer.timestamp = ts] ELSE L[i]]

\* layer.setProps({ timestamp }) on every layer of the map
SetTimestamps(L, ts) ==
  [i \in 1..Len(L) |-> [L[i] EXCEPT !.val.layer.timestamp = ts]]

\* requestAnimationFrame(animate), the host's part: the handle it returns is
\* a positive number that names no frame of R, the frames requested so far
requestAnimationFrame(R) ==
  CHOOSE h \in 1..(Cardinality(R) + 1) : h \notin R /\ \A k \in 1..(h - 1) : k \in R

\* a startAnimation() that requests a frame whether or not one is requested
StartAnimationAgain ==
  /\ animationFrameId' = requestAnimationFrame(requests)
  /\ requests' = requests \cup {animationFrameId'}
  /\ call' = Call("startAnimation", Null, "", NoData, EmptyOptions)
  /\ ret' = Return("void", Null)
  /\ UNCHANGED <<layers, layerCounter, lastTimestamp, timestamp, clock, snapshot, cache, fetches, apiKey>>

\* startAnimation(): does nothing while a frame is requested, else requests
\* the first frame and keeps its handle
StartAnimation ==
  /\ animationFrameId' = (IF animationFrameId # 0 THEN animationFrameId
                                               ELSE requestAnimationFrame(requests))
  /\ requests' = (IF animationFrameId # 0 THEN requests
                                        ELSE requests \cup {animationFrameId'})
  /\ call' = Call("startAnimation", Null, "", NoData, EmptyOptions)
  /\ ret' = Return("void", Null)
  /\ UNCHANGED <<layers, layerCounter, lastTimestamp, timestamp, clock, snapshot, cache, fetches, apiKey>>

\* a frame that also drops the entities created before the current millisecond
AnimateExpires(ts) ==
  /\ requests # {}
  /\ lastTimestamp' = ts
  /\ timestamp' = ts
  /\ layers' = SetTimestamps(SelectSeq(layers, LAMBDA e : e.val.createdAt >= clock), ts)
  /\ \E h \in requests :
       /\ animationFrameId' = requestAnimationFrame(requests \ {h})
       /\ requests' = (requests \ {h}) \cup {animationFrameId'}
  /\ call' = Call("animate", Null, "", NoData, EmptyOptions) @@ [timestamp |-> ts]
  /\ ret' = Return("void", Null)
  /\ UNCHANGED <<layerCounter, clock, snapshot, cache, fetches, apiKey>>

\* a frame whose callback stores the first timestamp only
AnimateKeepsFirst(ts) ==
  /\ requests # {}
  /\ lastTimestamp' = ts
  /\ timestamp' = (IF timestamp = 0 THEN ts ELSE timestamp)
  /\ layers' = SetTimestamps(layers, ts)
  /\ \E h \in requests :
       /\ animationFrameId' = requestAnimationFrame(requests \ {h})
       /\ requests' = (requests \ {h}) \cup {animationFrameId'}
  /\ call' = Call("animate", Null, "", NoData, EmptyOptions) @@ [timestamp |-> ts]
  /\ ret' = Return("void", Null)
  /\ UNCHANGED <<layerCounter, clock, snapshot, cache, fetches, apiKey>>

\* the host takes a requested frame h off its list and runs it:
\* animate(timestamp), which ends by requesting the next frame
Animate(ts) ==
  /\ requests # {}
  /\ lastTimestamp' = ts
  /\ timestamp' = ts
  /\ layers' = SetTimestamps(layers, ts)
  /\ \E h \in requests :
       /\ animationFrameId' = requestAnimationFrame(requests \ {h})
       /\ requests' = (requests \ {h}) \cup {animationFrameId'}
  /\ call' = Call("animate", Null, "", NoData, EmptyOptions) @@ [timestamp |-> ts]
  /\ ret' = Return("void", Null)
  /\ UNCHANGED <<layerCounter, clock, snapshot, cache, fetches, apiKey>>

\* stopAnimation(): cancels the requested frame, if there is one
StopAnimation ==
  /\ requests' = requests \ {animationFrameId}
  /\ animationFrameId' = 0
  /\ call' = Call("stopAnimation", Null, "", NoData, EmptyOptions)
  /\ ret' = Return("void", Null)
  /\ UNCHANGED <<layers, layerCounter, lastTimestamp, timestamp, clock, snapshot, cache, fetches, apiKey>>

\* destroy(): stopAnimation(), then clearAllLayers()
Destroy ==
  /\ requests' = requests \ {animationFrameId}
  /\ animationFrameId' = 0
  /\ layers' = <<>>
  /\ call' = Call("destroy", Null, "", NoData, EmptyOptions)
  /\ ret' = Return("void", Null)
  /\ UNCHANGED <<layerCounter, lastTimestamp, timestamp, clock, snapshot, cache, fetches, apiKey>>

\* getAllLayers(): the caller keeps the array it gets
GetAllLayers ==
  /\ snapshot' = getAllLayers(layers)
  /\ call' = Call("getAllLayers", Null, "", NoData, EmptyOptions)
  /\ ret' = Return("layers", getAllLayers(layers))
  /\ UNCHANGED <<layers, layerCounter, animationFrameId, requests, lastTimestamp, timestamp, clock, cache, fetches, apiKey>>

\* a millisecond passes on the host
Tock ==
  /\ clock < TimeOrigin + MaxTime
  /\ clock' = clock + 1
  /\ UNCHANGED <<layers, layerCounter, animationFrameId, requests, lastTimestamp, timestamp,
                 snapshot, cache, fetches, apiKey, call, ret>>

\* the timestamp the host passes to a frame that runs now
FrameTime == clock - TimeOrigin

----------------------------------------------------------------------------
(* Inputs *)

Types == LayerTypes \cup {UnknownType}

\* the payloads callers hand in with each type: well formed ones, an arc
\* record without its target, a ring of two coordinate pairs
DataFor(type) ==
  CASE type = "animated_arc" ->
         {ArcData(TRUE, TRUE), ArcData(TRUE, FALSE)}
    [] type \in {"glowing_border", "area_highlight"} ->
         {PolygonData(Ring5), PolygonData(Ring2)}
    [] OTHER -> {PointData(1)}

Instruction(type, data, options, id) ==
  [type |-> type, data |-> data, options |-> options, id |-> id]

\* ids handed in with a create: none (the manager generates one) or a caller
\* id; the id that equals a generated one comes with a pulsing dot, and a
\* type without generator comes with the free caller id
IdsFor(type) ==
  IF type = "pulsing_dot" THEN CallerIds \cup {Null}
  ELSE IF type \in {"animated_arc", UnknownType} THEN {<<"user", 1>>, Null}
  ELSE {<<"user", 1>>}

Instructions ==
  UNION {{Instruction(type, data, EmptyOptions, id) :
            data \in DataFor(type), id \in IdsFor(type)} : type \in Types}

\* the ids callers pass to removeLayer and the update methods
KnownIds == CallerIds \cup {GenId("pulsing_dot", n) : n \in 1..MaxCounter}

\* the id callers pass to the update methods
UpdatedIds == {<<"user", 1>>}

RemovedTypes == {"pulsing_dot", "animated_arc"}

NewData == {PointData(2)}

NewOptions == {[baseRadius |-> 5000]}

\* instructions of batches: one that succeeds, one of unknown type, one whose
\* generator is missing
BatchInstructions ==
  {Instruction("pulsing_dot", PointData(1), EmptyOptions, Null),
   Instruction(UnknownType, PointData(1), EmptyOptions, <<"user", 1>>),
   Instruction("explosion", PointData(1), EmptyOptions, <<"user", 1>>)}

Batches == UNION {[1..n -> BatchInstructions] : n \in 0..MaxBatch}

----------------------------------------------------------------------------
(* Specification: the registry under create, remove, update, clear and batch *)
(* calls.  The animation loop and Date.now() are not driven here, so         *)
(* animationFrameId, timestamp, lastTimestamp and clock keep their values.   *)

Next ==
  \/ \E instr \in Instructions : AddLayer(instr)
  \/ \E id \in KnownIds : RemoveLayer(id)
  \/ \E type \in RemovedTypes : RemoveLayersByType(type)
  \/ \E id \in UpdatedIds, newData \in NewData : UpdateLayerData(id, newData)
  \/ \E id \in UpdatedIds, newOptions \in NewOptions : UpdateLayerOptions(id, newOptions)
  \/ ClearAllLayers
  \/ \E instructions \in Batches : ProcessEventBatch(instructions)

Spec == Init /\ [][Next]_vars

----------------------------------------------------------------------------
(* Specification: the manager with its animation loop.  The host clock runs, *)
(* frames arrive while one is requested, and callers create, update and      *)
(* remove layers in between.                                                 *)

\* options handed in with a create
CreateOptions == [baseRadius |-> 8000, strokeWidth |-> 3]

AnimationInstructions ==
  {Instruction("pulsing_dot", PointData(1), CreateOptions, <<"user", 1>>),
   Instruction("animated_arc", ArcData(TRUE, TRUE), EmptyOptions, <<"user", 1>>),
   Instruction("pulsing_dot", PointData(1), EmptyOptions, Null)}

NextAnimation ==
  \/ \E instr \in AnimationInstructions : AddLayer(instr)
  \/ \E id \in UpdatedIds : RemoveLayer(id)
  \/ RemoveLayersByType("pulsing_dot")
  \/ \E id \in UpdatedIds, newData \in NewData : UpdateLayerData(id, newData)
  \/ \E id \in UpdatedIds, newOptions \in NewOptions : UpdateLayerOptions(id, newOptions)
  \/ ClearAllLayers
  \/ StartAnimation
  \/ Animate(FrameTime)
  \/ StopAnimation
  \/ Destroy
  \/ Tock

SpecAnimation == Init /\ [][NextAnimation]_vars

----------------------------------------------------------------------------
(* Specification: a caller that keeps the array of getAllLayers() while the  *)
(* registry goes on.  No operation of this specification calls setProps on a *)
(* layer, so the layer objects the array refers to stay as they were listed. *)

NextSnapshot ==
  \/ \E instr \in AnimationInstructions : AddLayer(instr)
  \/ \E id \in UpdatedIds : RemoveLayer(id)
  \/ RemoveLayersByType("pulsing_dot")
  \/ \E id \in UpdatedIds, newOptions \in NewOptions : UpdateLayerOptions(id, newOptions)
  \/ ClearAllLayers
  \/ GetAllLayers

SpecSnapshot == Init /\ [][NextSnapshot]_vars

----------------------------------------------------------------------------
(* Properties of the registry *)

LiveIds(L) == {L[i].key : i \in 1..Len(L)}

RECURSIVE SumOver(_, _)
SumOver(f, S) ==
  IF S = {} THEN 0
  ELSE LET k == CHOOSE x \in S : TRUE IN f[k] + SumOver(f, S \ {k})

\* an instruction whose geometry is usable: an arc with both endpoints, a
\* polygon ring that isValidPolygon accepts
WellFormed(type, data) ==
  CASE type = "animated_arc" -> data.kind = "arcs" /\ data.hasFrom /\ data.hasTo
    [] type \in {"glowing_border", "area_highlight"} ->
         data.kind = "polygon" /\ isValidPolygon(data.ring)
    [] OTHER -> data.kind = "points"

\* C1: no two live entities share an id (getAllLayers().length is the number
\* of distinct live ids) in every state; and an addLayer whose caller-supplied
\* id is live leaves the size and the order of ids unchanged and, when it
\* returns the id, leaves under that id the entity of the instruction.
C1_UniqueIds ==
  /\ [](Len(getAllLayers(layers)) = Cardinality(LiveIds(layers)))
  /\ [][(call'.op = "addLayer" /\ call'.id # Null /\ MapHas(layers, call'.id))
          => /\ Len(layers') = Len(layers)
             /\ MapKeys(layers') = MapKeys(layers)
             /\ ret'.kind = "id"
                  => /\ ret'.v = call'.id
                     /\ MapGet(layers', call'.id).type = call'.type
                     /\ MapGet(layers', call'.id).data = call'.data
                     /\ MapGet(layers', call'.id).options = call'.options]_vars

\* an addLayer with a caller id returned that id, and its entity stands before
\* another one: the id was live before the call
C1_Witness ==
  /\ call.op = "addLayer" /\ call.id # Null /\ ret.kind = "id"
  /\ Len(layers) = 2 /\ layers[1].key = call.id
  /\ layers[1].val.type = call.type

\* C2: addLayer with a type outside the enumeration returns null and leaves
\* this.layers as it was, also when the instruction carries a live id; every
\* stored entity has a type of the enumeration.
C2_TypeClosed ==
  /\ [](\A i \in 1..Len(layers) : layers[i].val.type \in LayerTypes)
  /\ [][(call'.op = "addLayer" /\ call'.type \notin LayerTypes)
          => (ret'.kind = "null" /\ layers' = layers)]_vars

\* an addLayer of unknown type that carried the id of a live entity ended
C2_Witness ==
  /\ call.op = "addLayer" /\ call.type = UnknownType
  /\ call.id # Null /\ MapHas(layers, call.id)
  /\ ret.kind = "null"

\* C3: the counts of getLayerStats sum to getAllLayers().length, and the count
\* of each type is getLayersByType(type).length (0 for a type without a key).
C3_StatsConsistent ==
  LET stats == getLayerStats(layers)
  IN  /\ SumOver(stats, DOMAIN stats) = Len(getAllLayers(layers))
      /\ \A t \in Types : Opt(stats, t, 0) = Len(getLayersByType(layers, t))
      /\ DOMAIN stats \subseteq Types

\* two live entities of one type
C3_Witness ==
  /\ Len(layers) = 2
  /\ layers[1].val.type = layers[2].val.type
  /\ getLayerStats(layers)[layers[1].val.type] = 2

\* C4: processEventBatch returns one result per instruction, in input order,
\* the i-th result carrying the i-th instruction, whatever fails or throws.
C4_BatchResults ==
  call.op = "processEventBatch"
    => /\ ret.kind = "results"
       /\ Len(ret.v) = Len(call.instructions)
       /\ \A i \in 1..Len(ret.v) : ret.v[i].instruction = call.instructions[i]

\* a batch whose first instruction made the generator throw and whose second
\* instruction succeeded
C4_Witness ==
  /\ call.op = "processEventBatch" /\ Len(call.instructions) = 2
  /\ call.instructions[1].type = "explosion"
  /\ ret.v[1].error = NotAFunction("createExplosionLayer")
  /\ ret.v[2].success

\* the instructions of a batch whose create, made alone, does not return an id
FailingCreates(L, counter, time, instructions) ==
  {i \in 1..Len(instructions) : addLayer(L, counter, time, instructions[i]).kind # "id"}

\* C5: after processEventBatch every result with success:true names a live
\* id, the live ids are those live before plus the ids of the successes, the
\* entities under other ids are untouched, and the results with success:false
\* are exactly the instructions whose create fails.
C5_BatchIndependent ==
  [][call'.op = "processEventBatch"
       => LET results == ret'.v
              ok == {i \in 1..Len(results) : results[i].success}
              okIds == {results[i].layerId : i \in ok}
          IN  /\ \A i \in ok : MapHas(layers', results[i].layerId)
              /\ LiveIds(layers') = LiveIds(layers) \cup okIds
              /\ \A id \in LiveIds(layers) \ okIds :
                   MapGet(layers', id) = MapGet(layers, id)
              /\ (1..Len(results)) \ ok =
                   FailingCreates(layers, layerCounter, clock, call'.instructions)
              /\ Cardinality((1..Len(results)) \ ok) =
                   Cardinality(FailingCreates(layers, layerCounter, clock,
                                              call'.instructions))]_vars

\* a batch whose second instruction failed after its first one succeeded: the
\* entity of the first one is live
C5_Witness ==
  /\ call.op = "processEventBatch" /\ Len(ret.v) = 2
  /\ ret.v[1].success /\ ~ret.v[2].success
  /\ MapHas(layers, ret.v[1].layerId)
  /\ ret.v[2].error = "Failed to create layer"

\* C6: addLayer ends by returning an id or null for every instruction; it
\* never throws.
C6_CreateNeverThrows ==
  call.op = "addLayer" => ret.kind \in {"id", "null"}

\* C7: addLayer with a well-formed instruction of any of the seven types
\* returns a non-null id, and the entity is then stored with that type,
\* counted by getLayerStats and contained in getAllLayers.
C7_SevenTypesCreate ==
  (call.op = "addLayer" /\ call.type \in LayerTypes /\ WellFormed(call.type, call.data))
    => /\ ret.kind = "id"
       /\ MapHas(layers, ret.v)
       /\ MapGet(layers, ret.v).type = call.type
       /\ Opt(getLayerStats(layers), call.type, 0) >= 1
       /\ \E i \in 1..Len(layers) :
            getAllLayers(layers)[i] = MapGet(layers, ret.v).layer

\* C8: addLayer with an animated_arc that lacks an endpoint, or with an area
\* type whose ring has fewer than 3 coordinate pairs, returns null and stores
\* no entity.
C8_RejectsMalformedGeometry ==
  (/\ call.op = "addLayer"
   /\ call.type \in {"animated_arc", "glowing_border", "area_highlight"}
   /\ ~WellFormed(call.type, call.data))
    => /\ ret.kind = "null"
       /\ \A i \in 1..Len(layers) :
            ~(layers[i].val.type = call.type /\ layers[i].val.data = call.data)

\* C9: removeLayer(id) returns true exactly when the id was live, and the id
\* is then not live; on an absent id it returns false and changes nothing; in
\* both cases the other entries are the same, in the same order.
C9_RemoveLayer ==
  [][call'.op = "removeLayer"
       => LET id == call'.id
          IN  /\ ret'.kind = "bool"
              /\ ret'.v = (id \in LiveIds(layers))
              /\ id \notin LiveIds(layers')
              /\ (id \notin LiveIds(layers)) => (layers' = layers)
              /\ LiveIds(layers') = LiveIds(layers) \ {id}
              /\ \A k \in LiveIds(layers') : MapGet(layers', k) = MapGet(layers, k)
              /\ \A i, j \in 1..Len(layers) :
                   (i < j /\ layers[i].key # id /\ layers[j].key # id)
                     => MapIndex(layers', layers[i].key) < MapIndex(layers', layers[j].key)
              /\ UNCHANGED layerCounter]_vars

\* a removeLayer returned true and another entity is still live
C9_Witness ==
  /\ call.op = "removeLayer" /\ ret.v = TRUE
  /\ Len(layers) >= 1
  /\ ~MapHas(layers, call.id)

----------------------------------------------------------------------------
(* Properties of the updates *)

C12_UpdateLayerOptions ==
  [][call'.op = "updateLayerOptions"
       => LET id == call'.id
              newOptions == call'.options
          IN  IF id \in LiveIds(layers)
                THEN LET old == MapGet(layers, id)
                         new == MapGet(layers', id)
                     IN  /\ ret' = Return("bool", TRUE)
                         /\ MapKeys(layers') = MapKeys(layers)
                         /\ DOMAIN new.options = (DOMAIN old.options) \cup (DOMAIN newOptions)
                         /\ \A k \in DOMAIN newOptions : new.options[k] = newOptions[k]
                         /\ \A k \in (DOMAIN old.options) \ (DOMAIN newOptions) :
                              new.options[k] = old.options[k]
                         /\ new.type = old.type
                         /\ new.data = old.data
                ELSE /\ ret' = Return("bool", FALSE)
                     /\ UNCHANGED <<layers, layerCounter>>]_vars

\* an updateLayerOptions returned true on an entity created with options: one
\* key was overridden and one was kept
C12_Witness ==
  /\ call.op = "updateLayerOptions" /\ ret.v = TRUE
  /\ MapGet(layers, call.id).options = [baseRadius |-> 5000, strokeWidth |-> 3]

\* C13: after a create, an updateLayerData or an updateLayerOptions that
\* succeeded, the stored layer of the entity it wrote is what the generator of
\* the entity's type returns for the entity's stored data and stored options.
C13_RenderStateFromBuilder ==
  [][(/\ call'.op \in {"addLayer", "updateLayerData", "updateLayerOptions"}
      /\ \/ ret'.kind = "id"
         \/ ret'.kind = "bool" /\ ret'.v = TRUE)
       => LET id == IF call'.op = "addLayer" THEN ret'.v ELSE call'.id
              info == MapGet(layers', id)
          IN  info.layer = CallGenerator(SwitchCase(info.type), id,
                                         info.data, info.options)]_vars

\* C14: getAllLayers() lists the layers of the live entities in insertion
\* order and hands out a copy: the array a caller holds is not changed by a
\* later create, remove, removeLayersByType, clear or updateLayerOptions.  A
\* create lists a new id last, and a create with a live id or an
\* updateLayerOptions keeps the place of the entity it replaces.
C14_GetAllLayers ==
  [][/\ call'.op = "getAllLayers"
          => /\ Len(ret'.v) = Len(layers)
             /\ \A i \in 1..Len(layers) :
                  ret'.v[i] = MapGet(layers, MapKeys(layers)[i]).layer
             /\ snapshot' = ret'.v
             /\ layers' = layers
     /\ call'.op \in {"addLayer", "removeLayer", "removeLayersByType",
                      "clearAllLayers", "updateLayerOptions"}
          => snapshot' = snapshot
     /\ (call'.op = "addLayer" /\ ret'.kind = "id")
          => MapKeys(layers') = IF ret'.v \in LiveIds(layers)
                                   THEN MapKeys(layers)
                                   ELSE Append(MapKeys(layers), ret'.v)
     /\ call'.op = "updateLayerOptions"
          => MapKeys(layers') = MapKeys(layers)]_vars

\* a caller holds an array of two different layers after the registry was
\* cleared
C14_Witness ==
  /\ Len(snapshot) = 2
  /\ snapshot[1] # snapshot[2]
  /\ call.op = "clearAllLayers"
  /\ layers = <<>>

----------------------------------------------------------------------------
(* Properties of the animation loop *)

C16_ClockNeverRewinds ==
  [][/\ timestamp' >= timestamp
     /\ lastTimestamp' >= lastTimestamp
     /\ call'.op = "animate"
          => timestamp' = call'.timestamp /\ lastTimestamp' = call'.timestamp
     /\ call'.op # "animate"
          => UNCHANGED <<timestamp, lastTimestamp>>]_vars

\* a frame ran at the latest time the host clock reaches, over a live entity
C16_Witness ==
  /\ call.op = "animate"
  /\ timestamp = MaxTime
  /\ lastTimestamp = MaxTime
  /\ Len(layers) >= 1

\* C17: createdAt is a value of the animation clock, so at every frame the
\* time since creation, the frame's timestamp minus createdAt, is not negative
\* for any live entity.
C17_CreatedAtOnAnimationClock ==
  call.op = "animate"
    => \A i \in 1..Len(layers) : call.timestamp - layers[i].val.createdAt >= 0

\* C18: an entity that is live stays live, under the same id and with the same
\* type, through every step that is not a removeLayer of its id, a
\* removeLayersByType of its type, a clearAllLayers, a destroy or a create
\* that writes its id; a frame, or time passing, removes nothing.
C18_RemovalIsCallerDriven ==
  [][/\ \A i \in 1..Len(layers) :
          LET id == layers[i].key
              type == layers[i].val.type
          IN  \/ id \in LiveIds(layers') /\ MapGet(layers', id).type = type
              \/ call'.op = "removeLayer" /\ call'.id = id
              \/ call'.op = "removeLayersByType" /\ call'.type = type
              \/ call'.op \in {"clearAllLayers", "destroy"}
              \/ call'.op = "addLayer" /\ ret'.kind = "id" /\ ret'.v = id
     /\ (call'.op = "animate" \/ clock' # clock)
          => /\ MapKeys(layers') = MapKeys(layers)
             /\ \A i \in 1..Len(layers) : layers'[i].val.type = layers[i].val.type]_vars

\* an entity created at the page load is still live at a frame at the latest
\* time the host clock reaches
C18_Witness ==
  /\ call.op = "animate"
  /\ timestamp = MaxTime
  /\ \E i \in 1..Len(layers) : layers[i].val.createdAt = TimeOrigin

----------------------------------------------------------------------------
(* Globe projections.  Angles are whole degrees on a grid of ten; lengths,   *)
(* sines and scalars are fixed-point numbers counted in thousandths.         *)

\* Math.sin at 0, 10, ..., 90 degrees, in thousandths
SinTable ==
  (0 :> 0) @@ (10 :> 174) @@ (20 :> 342) @@ (30 :> 500) @@ (40 :> 643) @@
  (50 :> 766) @@ (60 :> 866) @@ (70 :> 940) @@ (80 :> 985) @@ (90 :> 1000)

\* 1.0 as a fixed-point number
Unit == SinTable[90]

\* Math.sin(a * Math.PI / 180)
SinDeg(a) ==
  LET m == a % 360
  IN  IF m <= 90 THEN SinTable[m]
      ELSE IF m <= 180 THEN SinTable[180 - m]
      ELSE IF m <= 270 THEN -SinTable[m - 180]
      ELSE -SinTable[360 - m]

\* Math.cos(a * Math.PI / 180)
CosDeg(a) == SinDeg(a + 90)

\* p / q, rounded towards zero
Div(p, q) == IF p >= 0 THEN p \div q ELSE -((-p) \div q)

Abs(n) == IF n >= 0 THEN n ELSE -n

\* Math.sqrt(n), rounded down: bisection between lo and hi
RECURSIVE SqrtBetween(_, _, _)
SqrtBetween(n, lo, hi) ==
  IF hi - lo <= 1 THEN lo
  ELSE LET mid == (lo + hi) \div 2
       IN  IF mid * mid <= n THEN SqrtBetween(n, mid, hi)
           ELSE SqrtBetween(n, lo, mid)

\* the square root of a sum of squares of lengths, in thousandths
Sqrt(n) == SqrtBetween(n, 0, 20 * Unit)

\* Math.acos(c) * 180 / Math.PI: the angle of the grid whose cosine is nearest
AcosDeg(c) ==
  LET grid == {10 * k : k \in 0..18}
  IN  CHOOSE a \in grid : \A b \in grid : Abs(CosDeg(a) - c) <= Abs(CosDeg(b) - c)

\* Math.atan2(y, x) * 180 / Math.PI, in (-180, 180]: the direction of the grid
\* nearest to (x, y); atan2(0, 0) is 0
Atan2Deg(y, x) ==
  LET grid == {10 * k : k \in -17..18}
      along(a) == x * CosDeg(a) + y * SinDeg(a)
  IN  IF x = 0 /\ y = 0 THEN 0
      ELSE CHOOSE a \in grid : \A b \in grid : along(a) >= along(b)

\* new THREE.Vector3(x, y, z)
Vector3(x, y, z) == [x |-> x, y |-> y, z |-> z]

\* Vector3.add
add(v, w) == Vector3(v.x + w.x, v.y + w.y, v.z + w.z)

\* Vector3.multiplyScalar, the scalar in thousandths
multiplyScalar(v, s) == Vector3(Div(v.x * s, Unit), Div(v.y * s, Unit), Div(v.z * s, Unit))

\* Vector3.length
length(v) == Sqrt(v.x * v.x + v.y * v.y + v.z * v.z)

\* Vector3.normalize: divideScalar(this.length() || 1)
normalize(v) ==
  LET d == IF length(v) = 0 THEN Unit ELSE length(v)
  IN  Vector3(Div(v.x * Unit, d), Div(v.y * Unit, d), Div(v.z * Unit, d))

\* GLOBE_CONFIG.radius
GlobeRadius == 5

latLngToVector3(lat, lng, radius) ==
  LET phi == 90 - lat
      theta == lng + 180
      x == -Div(radius * SinDeg(phi) * CosDeg(theta), Unit)
      z == Div(radius * SinDeg(phi) * SinDeg(theta), Unit)
      y == radius * CosDeg(phi)
  IN  Vector3(x, y, z)

vector3ToLatLng(vector, radius) ==
  LET normalizedVector == multiplyScalar(normalize(vector), radius * Unit)
      lat == 90 - AcosDeg(Div(normalizedVector.y, radius))
      lng == Atan2Deg(normalizedVector.z, -normalizedVector.x) - 180
  IN  [lat |-> lat, lng |-> lng]

\* new THREE.QuadraticBezierCurve3(v0, v1, v2)
QuadraticBezierCurve3(v0, v1, v2) == [v0 |-> v0, v1 |-> v1, v2 |-> v2]

\* curve.getPoint(t), t in thousandths:
\* (1 - t)^2 * v0 + 2 * (1 - t) * t * v1 + t^2 * v2
getPoint(curve, t) ==
  LET k == Unit - t
      w0 == Div(k * k, Unit)
      w1 == Div(2 * k * t, Unit)
      w2 == Div(t * t, Unit)
      at(c0, c1, c2) == Div(w0 * c0 + w1 * c1 + w2 * c2, Unit)
  IN  Vector3(at(curve.v0.x, curve.v1.x, curve.v2.x),
              at(curve.v0.y, curve.v1.y, curve.v2.y),
              at(curve.v0.z, curve.v1.z, curve.v2.z))

createArcCurve(startLatLng, endLatLng, arcHeight) ==
  LET startVector == latLngToVector3(startLatLng.lat, startLatLng.lng, GlobeRadius)
      endVector == latLngToVector3(endLatLng.lat, endLatLng.lng, GlobeRadius)
      midVector == multiplyScalar(normalize(multiplyScalar(add(startVector, endVector),
                                                           Unit \div 2)),
                                  (GlobeRadius + arcHeight) * Unit)
  IN  QuadraticBezierCurve3(startVector, midVector, endVector)

\* Math.sin at a whole number of degrees off the grid: between the two grid
\* angles around it
SinAt(a) ==
  LET g == 10 * (a \div 10)
      r == a - g
  IN  IF r = 0 THEN SinDeg(g)
      ELSE SinDeg(g) + Div((SinDeg(g + 10) - SinDeg(g)) * r, 10)

CosAt(a) == SinAt(a + 90)

\* Math.asin(s) * 180 / Math.PI
AsinDeg(s) == 90 - AcosDeg(s)

\* a number that may be NaN: <<n>> is the fixed-point number n
NaN == <<>>

Num(n) == <<n>>

\* p / q of two fixed-point numbers; 0 / 0 is NaN (the numerators below are 0
\* whenever the denominator is)
Quot(p, q) == IF q = 0 THEN NaN ELSE Num(Div(p * Unit, q))

\* u * n and u + v, NaN when an operand is
Times(u, n) == IF u = NaN THEN NaN ELSE Num(Div(u[1] * n, Unit))

Plus(u, v) == IF u = NaN \/ v = NaN THEN NaN ELSE Num(u[1] + v[1])

\* Math.sqrt(u * u + v * v)
Hypot(u, v) ==
  IF u = NaN \/ v = NaN THEN NaN ELSE Num(Sqrt(u[1] * u[1] + v[1] * v[1]))

\* Math.atan2(u, v) * 180 / Math.PI, NaN when an operand is
Atan2Of(u, v) == IF u = NaN \/ v = NaN THEN NaN ELSE Num(Atan2Deg(u[1], v[1]))

\* validation.isValidCoordinate(lat, lng)
isValidCoordinate(lat, lng) == lat >= -90 /\ lat <= 90 /\ lng >= -180 /\ lng <= 180

\* getIntermediatePoints(start, end, numPoints): [kind, v], the points or the
\* error thrown
getIntermediatePoints(start, end, numPoints) ==
  IF \/ ~isValidCoordinate(start.latitude, start.longitude)
     \/ ~isValidCoordinate(end.latitude, end.longitude)
    THEN Return("throw", "Invalid coordinates provided")
  ELSE
    LET lat1 == start.latitude
        lng1 == start.longitude
        lat2 == end.latitude
        lng2 == end.longitude
        sinLat == SinAt(Div(lat1 - lat2, 2))
        sinLng == SinAt(Div(lng1 - lng2, 2))
        d == 2 * AsinDeg(Sqrt(Unit *
                 (Div(sinLat * sinLat, Unit)
                  + Div(Div(CosAt(lat1) * CosAt(lat2), Unit) * Div(sinLng * sinLng, Unit),
                        Unit))))
        point(i) ==
          LET a == Quot(SinAt(Div((numPoints - i) * d, numPoints)), SinAt(d))
              b == Quot(SinAt(Div(i * d, numPoints)), SinAt(d))
              x == Plus(Times(a, Div(CosAt(lat1) * CosAt(lng1), Unit)),
                        Times(b, Div(CosAt(lat2) * CosAt(lng2), Unit)))
              y == Plus(Times(a, Div(CosAt(lat1) * SinAt(lng1), Unit)),
                        Times(b, Div(CosAt(lat2) * SinAt(lng2), Unit)))
              z == Plus(Times(a, SinAt(lat1)), Times(b, SinAt(lat2)))
          IN  [latitude |-> Atan2Of(z, Hypot(x, y)), longitude |-> Atan2Of(y, x)]
    IN  Return("points", [k \in 1..(numPoints + 1) |-> point(k - 1)])

\* a call of one of the functions that has not returned yet
Pending == Return("pending", Null)

\* vector3ToLatLng(latLngToVector3(lat, lng, radius), radius) returns
ProjectAndBack ==
  /\ call.op = "vector3ToLatLng"
  /\ ret = Pending
  /\ ret' = Return("latlng",
                   vector3ToLatLng(latLngToVector3(call.lat, call.lng, call.radius),
                                   call.radius))
  /\ UNCHANGED <<layers, layerCounter, animationFrameId, requests, lastTimestamp, timestamp,
                 clock, snapshot, call, cache, fetches, apiKey>>

\* createArcCurve(startLatLng, endLatLng, arcHeight) returns, and the caller
\* evaluates the curve at both ends and half way
CreateArcCurve ==
  /\ call.op = "createArcCurve"
  /\ ret = Pending
  /\ LET curve == createArcCurve(call.startLatLng, call.endLatLng, call.arcHeight)
     IN  ret' = Return("curve", [curve |-> curve,
                                 atStart |-> getPoint(curve, 0),
                                 atMiddle |-> getPoint(curve, Unit \div 2),
                                 atEnd |-> getPoint(curve, Unit)])
  /\ UNCHANGED <<layers, layerCounter, animationFrameId, requests, lastTimestamp, timestamp,
                 clock, snapshot, call, cache, fetches, apiKey>>

\* getIntermediatePoints(start, end, numPoints) returns or throws
GetIntermediatePoints ==
  /\ call.op = "getIntermediatePoints"
  /\ ret = Pending
  /\ ret' = getIntermediatePoints(call.start, call.end, call.numPoints)
  /\ UNCHANGED <<layers, layerCounter, animationFrameId, requests, lastTimestamp, timestamp,
                 clock, snapshot, call, cache, fetches, apiKey>>

\* the points handed in: latitudes inside (-90, 90), longitudes of both signs
\* and both ends of [-180, 180].  The antipodal pairs among them are pairs
\* whose two vectors cancel exactly in double precision as well.
Lats == {-60, -40, 40, 60}

Lngs == {-180, -140, -90, 40, 180}

LatLngs == {[lat |-> lat, lng |-> lng] : lat \in Lats, lng \in Lngs}

Radii == 1..MaxRadius

Heights == 0..MaxHeight

\* the coordinates handed to getIntermediatePoints: no two of them antipodal
Coordinates ==
  {[latitude |-> lat, longitude |-> lng] : lat \in {0, 40}, lng \in {-40, 0, 60}}

PathCalls ==
  {[op |-> "getIntermediatePoints", start |-> a, end |-> b, numPoints |-> n] :
     a \in Coordinates, b \in Coordinates, n \in 1..MaxPoints}

\* the calls made: a round trip of a point, an arc between two points, the
\* points between two coordinates
GlobeCalls ==
  PathCalls \cup
  {[op |-> "vector3ToLatLng", lat |-> p.lat, lng |-> p.lng, radius |-> radius] :
     p \in LatLngs, radius \in Radii}
  \cup
  {[op |-> "createArcCurve", startLatLng |-> a, endLatLng |-> b, arcHeight |-> h] :
     a \in LatLngs, b \in LatLngs, h \in Heights}

----------------------------------------------------------------------------
(* Specification: one call of a globe projection, on any of the inputs *)

InitGlobe ==
  /\ layers = <<>>
  /\ layerCounter = 0
  /\ animationFrameId = 0
  /\ requests = {}
  /\ cache = <<>>
  /\ fetches = {}
  /\ apiKey = TRUE
  /\ lastTimestamp = 0
  /\ timestamp = 0
  /\ clock = TimeOrigin
  /\ snapshot = <<>>
  /\ call \in GlobeCalls
  /\ ret = Pending

NextGlobe ==
  \/ ProjectAndBack
  \/ CreateArcCurve
  \/ GetIntermediatePoints

SpecGlobe == InitGlobe /\ [][NextGlobe]_vars

\* C19: converting a point to a vector and back returns its latitude and its
\* longitude, the longitude within [-180, 180].
C19_ProjectionRoundTrip ==
  (call.op = "vector3ToLatLng" /\ ret # Pending)
    => /\ ret.v.lat = call.lat
       /\ ret.v.lng = call.lng
       /\ ret.v.lng \in -180..180

\* C20: the arc from a to b is at a's vector at parameter 0 and at b's vector
\* at parameter 1, and its middle control point is at distance
\* GLOBE_CONFIG.radius + arcHeight from the centre (to a hundredth).
C20_ArcEndpoints ==
  (call.op = "createArcCurve" /\ ret # Pending)
    => /\ ret.v.atStart = latLngToVector3(call.startLatLng.lat, call.startLatLng.lng,
                                          GlobeRadius)
       /\ ret.v.atEnd = latLngToVector3(call.endLatLng.lat, call.endLatLng.lng,
                                        GlobeRadius)
       /\ Abs(length(ret.v.curve.v1) - (GlobeRadius + call.arcHeight) * Unit)
            <= Unit \div 100

\* C21: an arc whose start and end are the same point is built without an
\* error and is that point's vector at every parameter: at 0, half way and
\* at 1, whatever the arc height.
C21_DegenerateArc ==
  (call.op = "createArcCurve" /\ ret # Pending /\ call.startLatLng = call.endLatLng)
    => LET a == latLngToVector3(call.startLatLng.lat, call.startLatLng.lng, GlobeRadius)
       IN  /\ ret.kind = "curve"
           /\ ret.v.atStart = a
           /\ ret.v.atMiddle = a
           /\ ret.v.atEnd = a

\* C22: getIntermediatePoints(a, b, n) returns n + 1 points, the first a and
\* the last b; when a and b are the same coordinate every point is a, and no
\* point has a NaN coordinate.
C22_IntermediatePoints ==
  (call.op = "getIntermediatePoints" /\ ret # Pending)
    => LET n == call.numPoints
           At(c) == [latitude |-> Num(c.latitude), longitude |-> Num(c.longitude)]
       IN  /\ ret.kind = "points"
           /\ Len(ret.v) = n + 1
           /\ \A i \in 1..(n + 1) :
                ret.v[i].latitude # NaN /\ ret.v[i].longitude # NaN
           /\ ret.v[1] = At(call.start)
           /\ ret.v[n + 1] = At(call.end)
           /\ call.start = call.end => \A i \in 1..(n + 1) : ret.v[i] = At(call.start)

----------------------------------------------------------------------------
(* Animation utilities.  A radius is kept exactly, as a fraction whose       *)
(* denominator is the cube of the duration.                                  *)

Cube(n) == n * n * n

\* an explosion that stops at its end instead of starting over
createExplosionAnimationOnce(baseRadius, maxRadius, duration, t) ==
  LET elapsed == IF t < duration THEN t ELSE duration
  IN  [num |-> baseRadius * Cube(duration)
                 + (maxRadius - baseRadius) * (Cube(duration) - Cube(duration - elapsed)),
       den |-> Cube(duration)]

\* createExplosionAnimation(baseRadius, maxRadius, duration)(timestamp):
\* progress is elapsed / duration, easeOut is 1 - (1 - progress)^3
createExplosionAnimation(baseRadius, maxRadius, duration, t) ==
  LET elapsed == t % duration
  IN  [num |-> baseRadius * Cube(duration)
                 + (maxRadius - baseRadius) * (Cube(duration) - Cube(duration - elapsed)),
       den |-> Cube(duration)]

\* the animation function is called on a timestamp
ExplosionRadius ==
  /\ call.op = "createExplosionAnimation"
  /\ ret = Pending
  /\ ret' = Return("radius", createExplosionAnimation(call.baseRadius, call.maxRadius,
                                                      call.duration, call.timestamp))
  /\ UNCHANGED <<layers, layerCounter, animationFrameId, requests, lastTimestamp, timestamp,
                 clock, snapshot, call, cache, fetches, apiKey>>

\* radii, durations and timestamps handed in: maxRadius below, at and above
\* baseRadius, timestamps into the third period
ExplosionCalls ==
  {[op |-> "createExplosionAnimation", baseRadius |-> b, maxRadius |-> m,
    duration |-> d, timestamp |-> t] :
     b \in {2, 3}, m \in {1, 3, 5}, d \in 1..MaxDuration, t \in 0..(2 * MaxDuration + 1)}

InitEffects ==
  /\ layers = <<>>
  /\ layerCounter = 0
  /\ animationFrameId = 0
  /\ requests = {}
  /\ cache = <<>>
  /\ fetches = {}
  /\ apiKey = TRUE
  /\ lastTimestamp = 0
  /\ timestamp = 0
  /\ clock = TimeOrigin
  /\ snapshot = <<>>
  /\ call \in ExplosionCalls
  /\ ret = Pending

NextEffects == ExplosionRadius

SpecEffects == InitEffects /\ [][NextEffects]_vars

\* C23 as stated: the explosion radius starts over every duration
\* milliseconds, and for maxRadius >= baseRadius it does not decrease within
\* a period and stays within [baseRadius, maxRadius).
C23_ExplosionRadiusBelowMax ==
  (call.op = "createExplosionAnimation" /\ ret # Pending)
    => LET b == call.baseRadius
           m == call.maxRadius
           d == call.duration
           t == call.timestamp
           radius(u) == createExplosionAnimation(b, m, d, u)
       IN  /\ radius(d) = radius(0)
           /\ radius(0).num = b * radius(0).den
           /\ radius(t + d) = ret.v
           /\ m >= b
                => /\ (t % d) + 1 < d => radius(t + 1).num >= ret.v.num
                   /\ ret.v.num >= b * ret.v.den
                   /\ ret.v.num < m * ret.v.den

\* C23, amended: the same, with the radius within [baseRadius, maxRadius) when
\* maxRadius > baseRadius and equal to baseRadius when maxRadius = baseRadius.
C23_ExplosionRadius ==
  (call.op = "createExplosionAnimation" /\ ret # Pending)
    => LET b == call.baseRadius
           m == call.maxRadius
           d == call.duration
           t == call.timestamp
           radius(u) == createExplosionAnimation(b, m, d, u)
       IN  /\ radius(d) = radius(0)
           /\ radius(0).num = b * radius(0).den
           /\ radius(t + d) = ret.v
           /\ m >= b
                => /\ (t % d) + 1 < d => radius(t + 1).num >= ret.v.num
                   /\ ret.v.num >= b * ret.v.den
                   /\ m > b => ret.v.num < m * ret.v.den
                   /\ m = b => ret.v.num = b * ret.v.den

\* the radius of a growing explosion was taken in a later period, after the
\* period's start
C23_Witness ==
  /\ call.op = "createExplosionAnimation" /\ ret # Pending
  /\ call.maxRadius > call.baseRadius
  /\ call.timestamp > call.duration
  /\ ret.v.num > call.baseRadius * ret.v.den

\* getRadius of a pulsing dot layer, in thousandths:
\* baseRadius * (1 + pulseIntensity * Math.sin((timestamp || 0) * 0.002 * pulseSpeed));
\* 0.002 radians are 0.1146 degrees, pulseIntensity is in tenths
getRadius(layer) ==
  LET t == IF layer.timestamp = NoTimestamp THEN 0 ELSE layer.timestamp
      degrees == Div(t * layer.props.pulseSpeed * 1146, 10000)
  IN  layer.props.baseRadius * Unit
        + Div(layer.props.baseRadius * layer.props.pulseIntensity * SinAt(degrees), 10)

\* C24: a pulsing dot created without baseRadius, pulseIntensity or pulseSpeed
\* uses 5000, 0.3 and 2, and the radius of a pulsing dot at time 0, or before
\* any frame gave it a timestamp, is its baseRadius.
C24_PulsingDotDefaults ==
  \A i \in 1..Len(layers) :
    layers[i].val.type = "pulsing_dot"
      => LET info == layers[i].val
             props == info.layer.props
         IN  /\ "baseRadius" \notin DOMAIN info.options => props.baseRadius = 5000
             /\ "pulseIntensity" \notin DOMAIN info.options => props.pulseIntensity = 3
             /\ "pulseSpeed" \notin DOMAIN info.options => props.pulseSpeed = 2
             /\ info.layer.timestamp \in {NoTimestamp, 0}
                  => getRadius(info.layer) = props.baseRadius * Unit


\* C25: for one manager, under every interleaving of startAnimation,
\* stopAnimation, destroy and frames, the host holds at most one requested
\* frame, and it is the one animationFrameId names; startAnimation while a
\* frame is requested changes nothing; after stopAnimation or destroy no frame
\* is requested, so none runs before the next startAnimation; and destroy
\* leaves the registry empty.
C25_OneFrameRequest ==
  /\ [](/\ Cardinality(requests) <= 1
        /\ requests = (IF animationFrameId = 0 THEN {} ELSE {animationFrameId})
        /\ call.op \in {"stopAnimation", "destroy"} => requests = {}
        /\ call.op = "destroy" => layers = <<>>
        /\ call.op = "animate" => requests # {})
  /\ [][/\ (call'.op = "startAnimation" /\ requests # {})
             => UNCHANGED <<requests, animationFrameId, layers, timestamp, lastTimestamp>>
        /\ requests = {}
             => /\ call'.op # "animate"
                /\ UNCHANGED <<timestamp, lastTimestamp>>
                /\ requests' # {} => call'.op = "startAnimation"]_vars

\* destroy() on a manager whose loop has run frames and that has created entities
C25_Witness ==
  /\ call.op = "destroy"
  /\ lastTimestamp > 0
  /\ layerCounter > 0


\* C26: an addLayer that is given no id and returns one never replaces an
\* entity: the id it generates is the id of no entity live before the call,
\* generated or supplied by a caller, and the map has one entry more; and
\* layerCounter, from which the ids are generated, never goes back, whatever
\* is removed or fails.
C26_GeneratedIdIsFresh ==
  [][/\ layerCounter' >= layerCounter
     /\ (/\ call'.op = "addLayer" /\ call'.id = Null /\ ret'.kind = "id"
         /\ layerCounter' # layerCounter)
          => /\ ret'.v = GenId(call'.type, layerCounter')
             /\ ret'.v \notin LiveIds(layers)
             /\ Len(layers') = Len(layers) + 1]_vars


\* C27: updateLayerOptions on a live entity leaves its createdAt as it was,
\* as updateLayerData does: no update method changes the createdAt of an
\* entity that is live before and after it.
C27_UpdateKeepsCreatedAt ==
  [][call'.op \in {"updateLayerOptions", "updateLayerData"}
       => \A id \in LiveIds(layers) \cap LiveIds(layers') :
            MapGet(layers', id).createdAt = MapGet(layers, id).createdAt]_vars


----------------------------------------------------------------------------
(* EventProcessor: from a description to instructions *)

\* A description is its text cut at the spaces: a sequence of words, where
\* "," is a comma, written against the word before it.

\* word.toLowerCase(), for the words that have capitals
toLowerCase(word) ==
  CASE word = "Missile" -> "missile"
    [] word = "March" -> "march"
    [] word = "From" -> "from"
    [] word = "Earthquake" -> "earthquake"
    [] word = "Tokyo" -> "tokyo"
    [] word = "Seoul" -> "seoul"
    [] word = "Osaka" -> "osaka"
    [] word = "Berlin" -> "berlin"
    [] OTHER -> word

\* lowerDesc.includes(key): the key is part of one of the words
includes(description, key) ==
  \E i \in 1..Len(description) :
    <<toLowerCase(description[i]), key>> \in
      {<<"missile", "missile">>, <<"launch", "launch">>, <<"launched", "launch">>,
       <<"arc", "arc">>, <<"march", "arc">>}

\* the first of a set of positions
First(positions) == CHOOSE i \in positions : \A j \in positions : i <= j

\* description.match(/from ([^ ]+) to (.+)/i): the first "from" that is
\* followed by a word, by "to" and by one word or more
MatchFromTo(description) ==
  LET n == Len(description)
      found == {i \in 1..n :
                  /\ i + 3 <= n
                  /\ toLowerCase(description[i]) = "from"
                  /\ description[i + 1] # ","
                  /\ toLowerCase(description[i + 2]) = "to"
                  /\ description[i + 3] # ","}
  IN  IF found = {} THEN <<>>
      ELSE <<description[First(found) + 1], SubSeq(description, First(found) + 3, n)>>

\* match[2].replace(/\band\b/gi, ',').split(',').map(s => s.trim()).filter(Boolean):
\* the runs of words between the commas and the words "and"
RECURSIVE split(_, _)
split(words, run) ==
  LET done == IF run = <<>> THEN <<>> ELSE <<run>>
  IN  IF words = <<>> THEN done
      ELSE IF Head(words) = "," \/ toLowerCase(Head(words)) = "and"
        THEN done \o split(Tail(words), <<>>)
      ELSE split(Tail(words), Append(run, Head(words)))

\* description.match(/in ([^,]+)(?:,|$)/i): the first word that ends in "in"
\* and has a word after it; the group runs up to the next comma or the end
MatchIn(description) ==
  LET n == Len(description)
      found == {i \in 1..n :
                  /\ i + 1 <= n
                  /\ toLowerCase(description[i]) \in {"in", "berlin"}
                  /\ description[i + 1] # ","}
      from == First(found) + 1
      commas == {j \in from..n : description[j] = ","}
  IN  IF found = {} THEN <<>>
      ELSE <<SubSeq(description, from, IF commas = {} THEN n ELSE First(commas) - 1)>>

\* data of an instruction that has no data field
Undefined ==
  [kind |-> "undefined", tag |-> 0, hasFrom |-> FALSE, hasTo |-> FALSE, ring |-> <<>>]

\* the instructions processEvent builds; they have no data, options or id
\* field, which addLayer reads as undefined, {} and undefined
processEvent(description) ==
  IF includes(description, "missile") \/ includes(description, "arc")
       \/ includes(description, "launch")
    THEN LET match == MatchFromTo(description)
             destinations == IF match = <<>> THEN <<>> ELSE split(match[2], <<>>)
         IN  [i \in 1..Len(destinations) |->
                [type |-> "arc", from |-> match[1], to |-> destinations[i],
                 data |-> Undefined, options |-> EmptyOptions, id |-> Null]]
  ELSE LET match == MatchIn(description)
           location == IF match = <<>> THEN <<"Tokyo">> ELSE match[1]
       IN  <<[type |-> "pulsing_dot", location |-> location,
              data |-> Undefined, options |-> EmptyOptions, id |-> Null]>>

\* processEvent(description): return this.plotManager.processEventBatch(instructions)
ProcessEvent(description) ==
  LET instructions == processEvent(description)
      out == processEventBatch(layers, layerCounter, clock, instructions)
  IN  /\ InBounds(out.layers, out.layerCounter)
      /\ layers' = out.layers
      /\ layerCounter' = out.layerCounter
      /\ call' = [Call("processEvent", Null, "", NoData, EmptyOptions)
                    EXCEPT !.instructions = instructions] @@ [description |-> description]
      /\ ret' = Return("results", out.results)
      /\ UNCHANGED <<animationFrameId, requests, lastTimestamp, timestamp, clock, snapshot, cache, fetches, apiKey>>

\* descriptions of both branches: with one and two destinations, with a
\* keyword and no route, with a location, without one, and with "in" found
\* at the end of a word
Descriptions ==
  {<<"Earthquake", "in", "Tokyo", ",", "magnitude", "6.1">>,
   <<"Earthquake", "in", "Seoul">>,
   <<"Earthquake">>,
   <<"Earthquake", "near", "Berlin", "today">>,
   <<"Missile", "launched", "from", "Tokyo", "to", "Seoul">>,
   <<"Missile", "from", "Tokyo", "to", "Seoul", "and", "Osaka">>,
   <<"launch", "From", "Tokyo", "to", "Seoul", ",", "Osaka">>,
   <<"arc", "from", "Osaka", "to", "New", "York">>,
   <<"Missile", "launch">>,
   <<"March", "in", "Berlin">>}

----------------------------------------------------------------------------
(* Specification: descriptions handed to the EventProcessor of a manager    *)
(* whose entities are cleared now and then, while time passes               *)

NextEvents ==
  \/ \E description \in Descriptions : ProcessEvent(description)
  \/ ClearAllLayers
  \/ Tock

SpecEvents == Init /\ [][NextEvents]_vars

\* C28: every instruction processEvent hands to processEventBatch has one of
\* the seven types of addLayer, in the arc branch and in the pulsing-dot
\* branch, and none comes back as a layer that could not be created.
C28_EventTypesAccepted ==
  call.op = "processEvent"
    => \A i \in 1..Len(call.instructions) :
         /\ call.instructions[i].type \in LayerTypes
         /\ ret.v[i].success \/ ret.v[i].error # "Failed to create layer"


----------------------------------------------------------------------------
(* Geocoding: the static table, the service and its cache *)

\* A location name is a word, with or without blanks around it and with or
\* without a "!" after it; NotAString is a value that is no string.
LocationName(word, padded, punct) ==
  [kind |-> "string", word |-> word, padded |-> padded, punct |-> punct]

NotAString == [kind |-> "number", word |-> "", padded |-> FALSE, punct |-> FALSE]

\* the number of characters of a word; "long199" and "long200" stand for
\* words of 199 and of 200 letters
WordLength(word) ==
  CASE word = "" -> 0
    [] word = "constructor" -> 11
    [] word = "long199" -> 199
    [] word = "long200" -> 200
    [] OTHER -> 5

\* string.length
StringLength(string) ==
  WordLength(string.word) + (IF string.punct THEN 1 ELSE 0)
                          + (IF string.padded THEN 2 ELSE 0)

\* string.trim()
trim(string) == [string EXCEPT !.padded = FALSE]

\* the most fetches the model follows at a time
MaxFetches == 2

\* validation.isValidLocation(location)
isValidLocation(location) ==
  /\ location.kind = "string"
  /\ StringLength(trim(location)) > 0
  /\ StringLength(trim(location)) < 200

\* validation.sanitizeInput(input): input.trim().substring(0, 500), which
\* cuts nothing off a string of 500 characters or less
sanitizeInput(input) ==
  IF input.kind # "string" THEN LocationName("", FALSE, FALSE) ELSE trim(input)

\* normalizeLocationName(name): lower case, trimmed, without the characters
\* that are neither letters, digits, "_" nor blanks
normalizeLocationName(name) == toLowerCase(name.word)

\* latitude and longitude in ten-thousandths of a degree
STATIC_COORDINATES ==
  [tokyo |-> [latitude |-> 356762, longitude |-> 1396503, formatted |-> "Tokyo, Japan"],
   paris |-> [latitude |-> 488566, longitude |-> 23522, formatted |-> "Paris, France"]]

\* what an object literal inherits from Object.prototype under a lower-case name
ObjectPrototype == [constructor |-> [function |-> "Object"]]

\* STATIC_COORDINATES[normalized]: <<>> is undefined; every other value is truthy
StaticLookup(normalized) ==
  IF normalized \in DOMAIN STATIC_COORDINATES THEN <<STATIC_COORDINATES[normalized]>>
  ELSE IF normalized \in DOMAIN ObjectPrototype THEN <<ObjectPrototype[normalized]>>
  ELSE <<>>

\* the object geocodeLocation returns when the service fails
Placeholder(locationName, message) ==
  [latitude |-> 0, longitude |-> 0, formatted |-> <<"Unknown Location", locationName>>,
   error |-> message]

\* locationName.toLowerCase().trim()
cacheKey(locationName) ==
  [word |-> toLowerCase(locationName.word), punct |-> locationName.punct]

\* coords of data.results[0]: the provider locates the place a query names
results(query) ==
  [latitude |-> IF toLowerCase(query.word) = "osaka" THEN 346937 ELSE 100000,
   longitude |-> IF toLowerCase(query.word) = "osaka" THEN 1355023 ELSE 200000,
   formatted |-> toLowerCase(query.word),
   confidence |-> 9]

\* the message of the error a response makes the service throw
ErrorOf(response, query) ==
  IF response = "http error" THEN <<"Geocoding failed", 500>>
  ELSE <<"Location not found", query>>

KeyNotConfigured == <<"OpenCage API key not configured">>

\* geocodingService.geocodeLocation(locationName) up to its fetch: it
\* throws, returns the cached coords, or fetches
geocodingServiceStart(C, key, locationName) ==
  IF ~key THEN Return("throw", KeyNotConfigured)
  ELSE IF MapHas(C, cacheKey(locationName))
    THEN Return("coords", MapGet(C, cacheKey(locationName)))
  ELSE Return("fetch", locationName)

\* geocodeLocation(locationName) of the globe utilities, up to the fetch of
\* the service
geocodeLocationStart(C, key, locationName) ==
  IF ~isValidLocation(locationName)
    THEN Return("throw", <<"Invalid location name provided">>)
  ELSE LET sanitized == sanitizeInput(locationName)
           found == StaticLookup(normalizeLocationName(sanitized))
           out == geocodingServiceStart(C, key, sanitized)
       IN  IF found # <<>> THEN Return("coords", found[1])
           ELSE IF out.kind = "throw"
             THEN Return("coords", Placeholder(locationName, out.v))
           ELSE out

GeocodeCall(op, locationName) ==
  Call(op, Null, "", NoData, EmptyOptions) @@ [locationName |-> locationName]

\* the calls wait for their fetch one per name and entry point, and at most
\* MaxFetches at a time
Suspend(out, fetch) ==
  /\ out.kind = "fetch" => fetch \notin fetches /\ Cardinality(fetches) < MaxFetches
  /\ fetches' = (IF out.kind = "fetch" THEN fetches \cup {fetch} ELSE fetches)
  /\ ret' = (IF out.kind = "fetch" THEN Pending ELSE out)

\* geocodeLocation(locationName), called on the globe utilities
GeocodeLocation(locationName) ==
  LET out == geocodeLocationStart(cache, apiKey, locationName)
  IN  /\ Suspend(out, [via |-> "utils", name |-> locationName, query |-> out.v])
      /\ call' = GeocodeCall("geocodeLocation", locationName)
      /\ UNCHANGED <<layers, layerCounter, animationFrameId, requests, lastTimestamp,
                     timestamp, clock, snapshot, cache, apiKey>>

\* geocodingService.geocodeLocation(locationName), called on the service
ServiceGeocodeLocation(locationName) ==
  LET out == geocodingServiceStart(cache, apiKey, locationName)
  IN  /\ Suspend(out, [via |-> "service", name |-> locationName, query |-> out.v])
      /\ call' = GeocodeCall("geocodingService.geocodeLocation", locationName)
      /\ UNCHANGED <<layers, layerCounter, animationFrameId, requests, lastTimestamp,
                     timestamp, clock, snapshot, cache, apiKey>>

\* a service that also caches what it answers when the lookup fails
ResumeCachesFailures(fetch, response) ==
  /\ fetch \in fetches
  /\ fetches' = fetches \ {fetch}
  /\ cache' = MapSet(cache, cacheKey(fetch.query),
                     IF response = "results" THEN results(fetch.query)
                     ELSE Placeholder(fetch.name, ErrorOf(response, fetch.query)))
  /\ ret' = Return("coords", MapGet(cache', cacheKey(fetch.query)))
  /\ call' = GeocodeCall("resume", fetch.name)
               @@ [via |-> fetch.via, query |-> fetch.query, response |-> response]
  /\ UNCHANGED <<layers, layerCounter, animationFrameId, requests, lastTimestamp,
                 timestamp, clock, snapshot, apiKey>>

\* the response of a fetch arrives and the call that awaits it goes on to its
\* end: results are cached and returned; an HTTP error or an empty result
\* list is thrown, and geocodeLocation of the utilities catches it
Resume(fetch, response) ==
  /\ fetch \in fetches
  /\ fetches' = fetches \ {fetch}
  /\ cache' = (IF response = "results"
                 THEN MapSet(cache, cacheKey(fetch.query), results(fetch.query))
               ELSE cache)
  /\ ret' = (IF response = "results" THEN Return("coords", results(fetch.query))
             ELSE IF fetch.via = "utils"
               THEN Return("coords", Placeholder(fetch.name, ErrorOf(response, fetch.query)))
             ELSE Return("throw", ErrorOf(response, fetch.query)))
  /\ call' = GeocodeCall("resume", fetch.name)
               @@ [via |-> fetch.via, query |-> fetch.query, response |-> response]
  /\ UNCHANGED <<layers, layerCounter, animationFrameId, requests, lastTimestamp,
                 timestamp, clock, snapshot, apiKey>>

\* clearGeocodingCache(): geocodingService.clearCache()
ClearGeocodingCache ==
  /\ cache' = <<>>
  /\ call' = GeocodeCall("clearGeocodingCache", NotAString)
  /\ ret' = Return("void", Null)
  /\ UNCHANGED <<layers, layerCounter, animationFrameId, requests, lastTimestamp,
                 timestamp, clock, snapshot, fetches, apiKey>>

\* names handed to geocodeLocation: " Tokyo! " and "paris" of the table,
\* "Osaka", " osaka " and "osaka!" outside it, "constructor", a blank string,
\* "!", a name of 199 letters, one of 200, and a number
LocationNames ==
  {LocationName("Tokyo", TRUE, TRUE), LocationName("paris", FALSE, FALSE),
   LocationName("Osaka", FALSE, FALSE), LocationName("osaka", TRUE, FALSE),
   LocationName("osaka", FALSE, TRUE), LocationName("constructor", FALSE, FALSE),
   LocationName("", TRUE, FALSE), LocationName("", FALSE, TRUE),
   LocationName("long199", TRUE, FALSE), LocationName("long200", FALSE, FALSE),
   NotAString}

\* names handed to the service by its other callers
ServiceNames ==
  {LocationName("Osaka", FALSE, FALSE), LocationName("osaka", TRUE, FALSE)}

Responses == {"results", "no results", "http error"}

----------------------------------------------------------------------------
(* Specification: lookups through the utilities and on the service, their   *)
(* responses in any order, and the cache cleared now and then; the API key  *)
(* is configured or not for the whole run                                   *)

InitGeocoding ==
  /\ layers = <<>>
  /\ layerCounter = 0
  /\ animationFrameId = 0
  /\ requests = {}
  /\ lastTimestamp = 0
  /\ timestamp = 0
  /\ clock = TimeOrigin
  /\ snapshot = <<>>
  /\ cache = <<>>
  /\ fetches = {}
  /\ apiKey \in BOOLEAN
  /\ call = GeocodeCall("import", NotAString)
  /\ ret = Return("void", Null)

NextGeocoding ==
  \/ \E locationName \in LocationNames : GeocodeLocation(locationName)
  \/ \E locationName \in ServiceNames : ServiceGeocodeLocation(locationName)
  \/ \E fetch \in fetches, response \in Responses : Resume(fetch, response)
  \/ ClearGeocodingCache

SpecGeocoding == InitGeocoding /\ [][NextGeocoding]_vars

\* the object is a result of the service, or the placeholder for a failure
IsServiceResult(v) == "confidence" \in DOMAIN v

IsPlaceholder(v) == "error" \in DOMAIN v /\ v.latitude = 0 /\ v.longitude = 0

\* C29: geocodeLocation of the globe utilities throws exactly for the invalid
\* names.  A valid name that is in the static table is answered with the
\* entry of the table, and neither the service's fetches nor its cache
\* change; a valid name that is not in the table is answered with what the
\* service has cached, or with the placeholder (latitude 0, longitude 0, an
\* error) when the service throws, or it waits for the fetch, and when the
\* response arrives it ends with the result of the service or with the
\* placeholder.
C29_GeocodeNeverRaises ==
  [][/\ call'.op = "geocodeLocation"
          => LET name == call'.locationName
                 sanitized == sanitizeInput(name)
                 normalized == normalizeLocationName(sanitized)
             IN  /\ ret'.kind = "throw" <=> ~isValidLocation(name)
                 /\ (isValidLocation(name) /\ normalized \in DOMAIN STATIC_COORDINATES)
                      => /\ ret' = Return("coords", STATIC_COORDINATES[normalized])
                         /\ UNCHANGED <<fetches, cache>>
                 /\ (isValidLocation(name) /\ normalized \notin DOMAIN STATIC_COORDINATES)
                      => \/ ret' = Pending /\ fetches' # fetches
                         \/ /\ ret'.kind = "coords"
                            /\ IF IsServiceResult(ret'.v)
                                 THEN /\ MapHas(cache, cacheKey(sanitized))
                                      /\ ret'.v = MapGet(cache, cacheKey(sanitized))
                               ELSE IsPlaceholder(ret'.v)
     /\ (call'.op = "resume" /\ call'.via = "utils")
          => /\ ret'.kind = "coords"
             /\ IF call'.response = "results" THEN ret'.v = results(call'.query)
                ELSE IsPlaceholder(ret'.v)]_vars


\* the name a call hands to geocodingService.geocodeLocation, if it gets there
ServiceQuery(c) ==
  IF c.op = "geocodingService.geocodeLocation" THEN <<c.locationName>>
  ELSE IF /\ c.op = "geocodeLocation"
          /\ isValidLocation(c.locationName)
          /\ StaticLookup(normalizeLocationName(sanitizeInput(c.locationName))) = <<>>
    THEN <<sanitizeInput(c.locationName)>>
  ELSE <<>>

\* the cache holds results of the service only, each under the key of its place
CacheHoldsResults ==
  \A i \in 1..Len(cache) :
    /\ IsServiceResult(cache[i].val)
    /\ cache[i].val = results(LocationName(cache[i].key.word, FALSE, cache[i].key.punct))

\* a call whose key is cached returns the cached coords and fetches nothing
HitReturnsCached(query) ==
  MapHas(cache, cacheKey(query))
    => /\ ret' = Return("coords", MapGet(cache, cacheKey(query)))
       /\ UNCHANGED <<fetches, cache>>

\* only clearCache takes an entry away or changes one
EntriesStay ==
  call'.op # "clearGeocodingCache"
    => /\ Len(cache') >= Len(cache)
       /\ \A i \in 1..Len(cache) : cache'[i] = cache[i]

\* a response with results puts the returned coords under the key of the
\* query; any other response leaves the cache as it is
ResponseCachesResults ==
  call'.op = "resume"
    => IF call'.response = "results"
         THEN /\ MapHas(cache', cacheKey(call'.query))
              /\ MapGet(cache', cacheKey(call'.query)) = ret'.v
       ELSE cache' = cache

====
